---- MODULE Spec2Model ----
(***************************************************************************)
(* Verification model of the "communal ahhh" server: clip ingestion        *)
(* (POST /api/upload, trimAndSave / normalizeAudio), the playback listing  *)
(* (GET /api/master_drone), the bulk reset (POST /api/reset), the          *)
(* composition job life cycle, and the crossfade-accumulation variant      *)
(* (compileNewDrone).  The repository holds several snapshots of the       *)
(* server; the variable `variant` says which snapshot is running.          *)
(***************************************************************************)
EXTENDS Integers, Sequences, FiniteSets, TLC

VARIABLES
    variant,      \* which snapshot of the server is running
    now,          \* the value Date.now() returns
    store,        \* PERSISTENT_STORAGE_PATH: path -> file
    up,           \* per upload request: position and locals
    playlist,     \* the playlist the last GET /api/master_drone computed
    resets,       \* number of resets that ran their delete loop / returned 200
    resetStatus,  \* status of the last POST /api/reset response (0: none yet)
    jobs,         \* per composition job: engine, response and manifest state
    tmpfiles,     \* manifest files on disk: path -> job that wrote it last
    master,       \* MASTER_FILE of the accumulation variant
    mtemps,       \* temp_<Date.now()>.webm files of the accumulation variant
    mup,          \* per upload of the accumulation variant
    served,       \* what the last GET /api/master_drone of that variant sent
    req,          \* one playback request: listing, probes, sequencing, response
    cmd,          \* the engine command built from one playlist
    reply,        \* per upload that fails: the rejection and the response sent
    clip,         \* the samples of one clip on their way through the trim filters
    deck          \* the clips behind the anchor while the shuffle loop runs

vars == <<variant, now, store, up, playlist, resets, resetStatus,
          jobs, tmpfiles, master, mtemps, mup, served, req, cmd, reply, clip, deck>>

storeVars == <<store, up, playlist, resets, resetStatus>>
jobVars == <<jobs, tmpfiles>>
masterVars == <<master, mtemps, mup, served>>

(***************************************************************************)
(* Bounds of the model.                                                    *)
(***************************************************************************)
MaxUploads == 2
MaxTime == 2
MaxResets == 1
MaxJobs == 2
MaxRand == 2

Uploads == 1..MaxUploads
Jobs == 1..MaxJobs

(***************************************************************************)
(* Program constants.                                                      *)
(***************************************************************************)
\* trimAndSave: `if (stats.size < 400)`
MinClipSize == 400
\* playback filter of part_001 / part_004: `file.size > 100`
SmallFileLimit == 100

\* File sizes the engine can produce: empty, a bare container header,
\* exactly the threshold, and a real recording.
Sizes == {0, SmallFileLimit, MinClipSize, MinClipSize + 1}

\* What a reader can find flushed of a file still being written: nothing
\* yet, or the first part of a real recording.
PartialSizes == {0, MinClipSize + 1}

\* process.env.RESET_SECRET || 'lulu'
RESET_SECRET == "lulu"
Secrets == {"lulu", "wrong", "missing"}

\* path.extname(req.file.originalname) of the uploads tried
OrigExts == {".webm", ".mp4"}

\* The snapshots that keep one file per clip.
StoreVariants ==
    {"part_000", "part_001", "part_003", "part_004", "server_js", "part_002_playlist"}

NoPath == [t |-> 0, ext |-> "none"]

(***************************************************************************)
(* The clip store as a map from path to file.                              *)
(***************************************************************************)
Exists(s, p) == p \in DOMAIN s

RemoveFile(s, p) == [q \in (DOMAIN s) \ {p} |-> s[q]]

PutFile(s, p, f) == [q \in (DOMAIN s) \cup {p} |-> IF q = p THEN f ELSE s[q]]

EmptyStore == [q \in {} |-> [size |-> 0, complete |-> FALSE, writer |-> 0, mtime |-> 0]]

(***************************************************************************)
(* POST /api/upload: the final path of the clip.                           *)
(***************************************************************************)
FinalExt(v, orig) ==
    CASE v \in {"part_000", "part_001", "server_js"} -> ".webm"
      [] v \in {"part_003", "part_002_playlist"} -> ".mp4"
      [] OTHER -> orig

FinalPath(v, t, orig) == [t |-> t, ext |-> FinalExt(v, orig)]

\* Whether the 'end' handler of trimAndSave stats the output.
HasVerify(v) == v \in {"part_000", "part_001", "part_003", "part_004"}

\* The post-trim size check of the 'end' handler.
RejectsSize(v, size) ==
    CASE v \in {"part_001", "part_003"} -> size < MinClipSize
      [] v \in {"part_000", "part_004"} -> size = 0
      [] OTHER -> FALSE

\* The catch block of POST /api/upload:
\* `if (fs.existsSync(finalPath)) fs.unlinkSync(finalPath)`.
\* The normalizeAudio snapshot has no cleanup in its catch block.
UploadCatch_noCleanup(v, s, p) == s

UploadCatch(v, s, p) ==
    IF v = "part_002_playlist" THEN s ELSE RemoveFile(s, p)

\* The engine's 'error' handler followed by the rejection reaching the catch
\* block. normalizeAudio unlinks the output itself before rejecting.
OnTrimError(v, s, p) ==
    IF v = "part_002_playlist" THEN RemoveFile(s, p) ELSE UploadCatch(v, s, p)

IdleUpload == [pc |-> "idle", path |-> NoPath, tmp |-> FALSE, opened |-> FALSE]

\* Requests are numbered in the order in which they arrive.
NextToArrive(u) ==
    /\ up[u].pc = "idle"
    /\ \A w \in Uploads : w < u => up[w].pc # "idle"

InFlight(u) == up[u].pc \in {"trimming", "verifying", "discarding"}

\* The file at the upload's path is the one its own engine run created.
OwnFile(u) ==
    /\ Exists(store, up[u].path)
    /\ store[up[u].path].writer = u

(***************************************************************************)
(* Date.now() advances.                                                    *)
(***************************************************************************)
Tick ==
    /\ now < MaxTime
    /\ now' = now + 1
    /\ UNCHANGED <<variant, deck, req, cmd, reply, clip, storeVars, jobVars, masterVars>>

(***************************************************************************)
(* POST /api/upload up to the call of trimAndSave / normalizeAudio.        *)
(***************************************************************************)
UploadStart(u, orig) ==
    /\ variant \in StoreVariants
    /\ NextToArrive(u)
    /\ up' = [up EXCEPT ![u] = [pc |-> "trimming",
                                path |-> FinalPath(variant, now, orig),
                                tmp |-> TRUE,
                                opened |-> FALSE]]
    /\ UNCHANGED <<variant, deck, req, cmd, reply, clip, now, store, playlist, resets, resetStatus, jobVars, masterVars>>

\* A synchronous error while the engine command is set up: the promise is
\* rejected at once and the catch block of the route runs.
UploadSetupError(u, orig) ==
    /\ variant \in StoreVariants
    /\ NextToArrive(u)
    /\ LET p == FinalPath(variant, now, orig) IN
        /\ store' = UploadCatch(variant, store, p)
        /\ up' = [up EXCEPT ![u] = [pc |-> "failed", path |-> p,
                                    tmp |-> TRUE, opened |-> FALSE]]
    /\ UNCHANGED <<variant, deck, req, cmd, reply, clip, now, playlist, resets, resetStatus, jobVars, masterVars>>

(***************************************************************************)
(* The engine process of one upload: .save(outputPath) writes in place.    *)
(***************************************************************************)
\* The engine opens (creates or truncates) its output file and has flushed
\* `size` bytes of it so far. A file unlinked or truncated by someone else
\* afterwards no longer shows this engine's writes.
EngineOpen(u, size) ==
    /\ up[u].pc = "trimming"
    /\ ~up[u].opened
    /\ store' = PutFile(store, up[u].path,
                        [size |-> size, complete |-> FALSE, writer |-> u,
                         mtime |-> now])
    /\ up' = [up EXCEPT ![u].opened = TRUE]
    /\ UNCHANGED <<variant, deck, req, cmd, reply, clip, now, playlist, resets, resetStatus, jobVars, masterVars>>

\* The engine exits successfully and its 'end' handler runs up to its first
\* await (or to resolve() where the handler does not verify).
EngineEnd(u, size) ==
    /\ up[u].pc = "trimming"
    /\ up[u].opened
    /\ \/ ~OwnFile(u) /\ store' = store
       \/ /\ OwnFile(u)
          /\ size >= store[up[u].path].size
          /\ store' = [store EXCEPT ![up[u].path] =
                          [size |-> size, complete |-> TRUE, writer |-> u,
                           mtime |-> now]]
    /\ up' = [up EXCEPT ![u].tmp = FALSE,
                        ![u].pc = IF HasVerify(variant) THEN "verifying" ELSE "done"]
    /\ UNCHANGED <<variant, deck, req, cmd, reply, clip, now, playlist, resets, resetStatus, jobVars, masterVars>>

\* `await fs.promises.stat(outputPath)` returns and the size check runs.
Verify(u) ==
    /\ up[u].pc = "verifying"
    /\ IF ~Exists(store, up[u].path)
          THEN \* stat throws -> reject -> catch block
               /\ store' = UploadCatch(variant, store, up[u].path)
               /\ up' = [up EXCEPT ![u].pc = "failed"]
          ELSE IF RejectsSize(variant, store[up[u].path].size)
                  THEN /\ up' = [up EXCEPT ![u].pc = "discarding"]
                       /\ store' = store
                  ELSE /\ up' = [up EXCEPT ![u].pc = "done"]
                       /\ store' = store
    /\ UNCHANGED <<variant, deck, req, cmd, reply, clip, now, playlist, resets, resetStatus, jobVars, masterVars>>

\* `await fs.promises.unlink(outputPath); return reject(...)` and the catch
\* block of the route.
Discard(u) ==
    /\ up[u].pc = "discarding"
    /\ store' = UploadCatch(variant, RemoveFile(store, up[u].path), up[u].path)
    /\ up' = [up EXCEPT ![u].pc = "failed"]
    /\ UNCHANGED <<variant, deck, req, cmd, reply, clip, now, playlist, resets, resetStatus, jobVars, masterVars>>

\* The engine fails: 'error' handler -> reject -> catch block -> 500.
EngineError(u) ==
    /\ up[u].pc = "trimming"
    /\ store' = OnTrimError(variant, store, up[u].path)
    /\ up' = [up EXCEPT ![u].pc = "failed"]
    /\ UNCHANGED <<variant, deck, req, cmd, reply, clip, now, playlist, resets, resetStatus, jobVars, masterVars>>

(***************************************************************************)
(* GET /api/master_drone (GET /api/playlist in the normalizeAudio          *)
(* snapshot): the directory listing and its filters.  readdirSync and      *)
(* statSync are synchronous, so the listing sees one snapshot of the store.*)
(***************************************************************************)
PlaybackExts(v) ==
    CASE v \in {"part_000", "server_js"} -> {".webm"}
      [] v \in {"part_003", "part_002_playlist"} -> {".mp4"}
      [] OTHER -> {".webm", ".mp4"}

PassesSizeFilter(v, size) ==
    CASE v = "part_000" -> size > 0
      [] v \in {"part_001", "part_004"} -> size > SmallFileLimit
      [] v = "part_003" -> size > MinClipSize
      [] OTHER -> TRUE

\* The snapshots that run ffprobe on every candidate.
HasProbe(v) == v \in {"part_001", "part_003"}

Candidates(v, s) ==
    {p \in DOMAIN s : p.ext \in PlaybackExts(v) /\ PassesSizeFilter(v, s[p].size)}

\* What the validation can leave of the candidates: a finished engine output
\* has an audio stream; the probe of a file still being written can go
\* either way.
ProbeOutcomes(v, s) ==
    IF HasProbe(v)
       THEN {c \in SUBSET Candidates(v, s) :
                \A p \in Candidates(v, s) : s[p].complete => p \in c}
       ELSE {Candidates(v, s)}

MasterDroneList ==
    /\ variant \in StoreVariants
    /\ playlist' \in ProbeOutcomes(variant, store)
    /\ UNCHANGED <<variant, deck, req, cmd, reply, clip, now, store, up, resets, resetStatus, jobVars, masterVars>>

(***************************************************************************)
(* POST /api/reset.                                                        *)
(***************************************************************************)
\* A gate that lets a request without a secret through.
Forbidden_onlyWrong(secret) == secret = "wrong"

\* `if (secret !== RESET_SECRET) return res.status(403).send(...)`
Forbidden(secret) == secret # RESET_SECRET

\* A delete loop that removes nothing.
ResetDeleteLoop_none(s) == s

\* `files.forEach(file => fs.unlinkSync(...))`
ResetDeleteLoop(s) == EmptyStore

Reset(secret) ==
    /\ variant \in StoreVariants
    /\ IF Forbidden(secret)
          THEN /\ resetStatus' = 403
               /\ UNCHANGED <<store, resets>>
          ELSE /\ resets < MaxResets
               /\ store' = ResetDeleteLoop(store)
               /\ resets' = resets + 1
               /\ resetStatus' = 200
    /\ UNCHANGED <<variant, deck, req, cmd, reply, clip, now, up, playlist, jobVars, masterVars>>

Init ==
    /\ variant \in StoreVariants
    /\ now = 1
    /\ store = EmptyStore
    /\ up = [u \in Uploads |-> IdleUpload]
    /\ playlist = {}
    /\ resets = 0
    /\ resetStatus = 0
    /\ jobs = <<>>
    /\ tmpfiles = <<>>
    /\ master = <<>>
    /\ mtemps = <<>>
    /\ mup = <<>>
    /\ served = <<>>
    /\ cmd = <<>>
    /\ deck = <<>>
    /\ clip = <<>>
    /\ reply = <<>>
    /\ req = <<>>

UploadNext ==
    \/ Tick
    \/ \E u \in Uploads, orig \in OrigExts : UploadStart(u, orig)
    \/ \E u \in Uploads, orig \in OrigExts : UploadSetupError(u, orig)
    \/ \E u \in Uploads, size \in PartialSizes : EngineOpen(u, size)
    \/ \E u \in Uploads, size \in PartialSizes : EngineEnd(u, size)
    \/ \E u \in Uploads : Verify(u)
    \/ \E u \in Uploads : Discard(u)
    \/ \E u \in Uploads : EngineError(u)
    \/ Reset(RESET_SECRET)

Next ==
    \/ UploadNext
    \/ \E u \in Uploads, size \in Sizes \ PartialSizes : EngineEnd(u, size)
    \/ MasterDroneList
    \/ \E secret \in Secrets : Reset(secret)

\* Uploads, playback listings and resets in every interleaving.
Spec == Init /\ [][Next]_vars

\* Uploads and valid resets alone.
SpecUpload == Init /\ [][UploadNext]_vars

(***************************************************************************)
(* Claims about ingestion, the listing and the reset.                      *)
(***************************************************************************)

\* C1: whenever GET /api/master_drone computes a playlist, every clip in it
\* is a file whose producing write has completed (the engine has emitted
\* 'end'); a clip still being written never appears in a playlist.
C1_PlaylistHoldsOnlyFinishedClips ==
    [][playlist' # playlist =>
          \A p \in playlist' : Exists(store', p) /\ store'[p].complete]_vars

\* C2: once POST /api/upload has answered with a failure, the store holds
\* no file that this upload's engine run produced at the upload's final
\* path: a failed upload leaves no partial or rejected clip behind.
C2_FailedUploadLeavesNoFile ==
    \A u \in Uploads : up[u].pc = "failed" => ~OwnFile(u)

\* C2 witness: an upload has failed after its engine had created the output
\* file at the final path.
C2_Witness ==
    \E u \in Uploads : up[u].pc = "failed" /\ up[u].opened

\* C3: no upload has answered success while the clip it produced is below
\* the minimum size threshold: such an output is rejected and removed.
C3_DegenerateResultRejected ==
    \A u \in Uploads :
        (up[u].pc = "done" /\ OwnFile(u)) => store[up[u].path].size >= MinClipSize

\* C8: the delete loop of a reset never runs while an upload is between the
\* start of its write into the store and the end of its publish.
C8_ResetExcludesInFlightUpload ==
    [][resets' # resets => \A u \in Uploads : ~InFlight(u)]_vars

\* C9: any two distinct upload requests have distinct final store paths.
C9_DistinctFinalPaths ==
    \A a, b \in Uploads :
        (a # b /\ up[a].pc # "idle" /\ up[b].pc # "idle") => up[a].path # up[b].path

\* C19: once POST /api/upload has answered, with success or with a failure,
\* the temporary upload file of that request no longer exists.
C19_TempUploadGoneAfterResponse ==
    \A u \in Uploads : up[u].pc \in {"done", "failed"} => ~up[u].tmp

\* The ordering key of a stored clip: `time: stats.mtime.getTime()` in
\* GET /api/master_drone, the timestamp of the file name in GET /api/playlist.
SortKey(v, s, p) == IF v = "part_002_playlist" THEN p.t ELSE s[p].mtime

\* C20: when upload a was submitted before upload b and both have succeeded,
\* the ordering key of a's clip is not greater than the key of b's clip.
C20_KeyFollowsSubmissionOrder ==
    \A a, b \in Uploads :
        (/\ a < b
         /\ up[a].pc = "done" /\ up[b].pc = "done"
         /\ up[a].path # up[b].path
         /\ OwnFile(a) /\ OwnFile(b))
        => SortKey(variant, store, up[a].path) <= SortKey(variant, store, up[b].path)

(***************************************************************************)
(* Composition jobs: GET /api/master_drone from the point where a playlist *)
(* of two or more clips is handed to the engine.                           *)
(***************************************************************************)
JobVariants == {"part_000", "part_001", "part_003", "part_004", "server_js"}

Modes == {"sequential", "simultaneous", "absent"}

\* Math.random() * 9999 | 0, cut down to MaxRand values.
RandValues == 0..(MaxRand - 1)

NoList == [t |-> 0, r |-> 0]

IdleJob == [engine |-> "none", list |-> NoList,
            headersSent |-> FALSE, status |-> 0, bodies |-> 0,
            ended |-> FALSE, closed |-> FALSE]

\* Whether this snapshot writes a concat list for the request.
WritesManifest(v, mode) ==
    \/ v = "part_000"
    \/ v = "part_003" /\ mode = "simultaneous"

\* listPath / listFilePath
ManifestPath(v, t, rnd) ==
    IF v = "part_000" THEN [t |-> t, r |-> rnd] ELSE [t |-> t, r |-> 0]

\* A concat list written next to the clips.
ManifestDir_store(v) == "PERSISTENT_STORAGE_PATH"

\* The directory of listPath: os.tmpdir(), or UPLOAD_DIR in part_003.
ManifestDir(v) == IF v = "part_003" THEN "UPLOAD_DIR" ELSE "tmpdir"

\* The clip store after fs.writeFileSync(listPath, ...).
WriteList(v, s, path) ==
    IF ManifestDir(v) = "PERSISTENT_STORAGE_PATH"
       THEN PutFile(s, [t |-> path.t, ext |-> ".txt"],
                    [size |-> 1, complete |-> TRUE, writer |-> 0, mtime |-> path.t])
       ELSE s

\* The store of a server that has clips to compose: two finished clips.
JobClips(v) ==
    [p \in {[t |-> x, ext |-> FinalExt(v, ".webm")] : x \in {0, 1}} |->
        [size |-> MinClipSize + 1, complete |-> TRUE, writer |-> 0, mtime |-> 1]]

\* `try { fs.unlinkSync(listPath); } catch {}` where the snapshot has it.
CleanupManifest(v, files, path) ==
    IF v = "part_000" THEN RemoveFile(files, path) ELSE files

\* req.on('close', ...) exists in part_000 only.
HasCloseHandler(v) == v = "part_000"

HasList(j) == jobs[j].list # NoList

OwnManifest(j) ==
    /\ HasList(j)
    /\ Exists(tmpfiles, jobs[j].list)
    /\ tmpfiles[jobs[j].list] = j

JobArrives(j) ==
    /\ jobs[j].engine = "none"
    /\ \A w \in Jobs : w < j => jobs[w].engine # "none"

\* The 'error' handler's response:
\* `if (!res.headersSent) res.status(500).send(...)`, and the pipe created
\* with { end: true } ends the response when the engine's output ends.
ErrorResponse_always500(job) ==
    [job EXCEPT !.status = 500, !.headersSent = TRUE,
                !.bodies = job.bodies + 1, !.ended = TRUE]

ErrorResponse(job) ==
    IF ~job.headersSent
       THEN [job EXCEPT !.status = 500, !.headersSent = TRUE,
                        !.bodies = job.bodies + 1, !.ended = TRUE]
       ELSE [job EXCEPT !.ended = TRUE]

\* The request writes its manifest (if any), sets the content type, builds
\* the command and pipes it to the response.
ComposeStart(j, mode, rnd) ==
    /\ variant \in JobVariants
    /\ JobArrives(j)
    /\ LET path == IF WritesManifest(variant, mode)
                      THEN ManifestPath(variant, now, rnd) ELSE NoList
       IN /\ jobs' = [jobs EXCEPT ![j] = [IdleJob EXCEPT !.engine = "running",
                                                          !.list = path]]
          /\ tmpfiles' = IF path # NoList THEN PutFile(tmpfiles, path, j) ELSE tmpfiles
          /\ store' = IF path # NoList THEN WriteList(variant, store, path) ELSE store
    /\ UNCHANGED <<variant, deck, req, cmd, reply, clip, now, up, playlist, resets, resetStatus, masterVars>>

\* The engine's first output reaches the response: headers go out with 200.
ComposeData(j) ==
    /\ jobs[j].engine = "running"
    /\ ~jobs[j].headersSent
    /\ jobs' = [jobs EXCEPT ![j].headersSent = TRUE, ![j].status = 200]
    /\ UNCHANGED <<variant, deck, req, cmd, reply, clip, now, tmpfiles, storeVars, masterVars>>

\* The engine exits successfully: the pipe ends the response, 'end' fires.
ComposeEnd(j) ==
    /\ jobs[j].engine = "running"
    /\ jobs' = [jobs EXCEPT ![j].engine = "ended",
                            ![j].headersSent = TRUE,
                            ![j].status = IF jobs[j].headersSent THEN jobs[j].status ELSE 200,
                            ![j].ended = TRUE]
    /\ tmpfiles' = CleanupManifest(variant, tmpfiles, jobs[j].list)
    /\ UNCHANGED <<variant, deck, req, cmd, reply, clip, now, storeVars, masterVars>>

\* The engine fails, or reports that it was killed: 'error' fires.
ComposeError(j) ==
    /\ jobs[j].engine \in {"running", "killed"}
    /\ jobs' = [jobs EXCEPT ![j] = [ErrorResponse(jobs[j]) EXCEPT !.engine = "errored"]]
    /\ tmpfiles' = CleanupManifest(variant, tmpfiles, jobs[j].list)
    /\ UNCHANGED <<variant, deck, req, cmd, reply, clip, now, storeVars, masterVars>>

\* The client connection closes.
ClientClose(j) ==
    /\ jobs[j].engine # "none"
    /\ ~jobs[j].closed
    /\ IF HasCloseHandler(variant)
          THEN /\ jobs' = [jobs EXCEPT
                      ![j].closed = TRUE,
                      ![j].engine = IF ~jobs[j].ended /\ jobs[j].engine = "running"
                                       THEN "killed" ELSE jobs[j].engine]
               /\ tmpfiles' = CleanupManifest(variant, tmpfiles, jobs[j].list)
          ELSE /\ jobs' = [jobs EXCEPT ![j].closed = TRUE]
               /\ tmpfiles' = tmpfiles
    /\ UNCHANGED <<variant, deck, req, cmd, reply, clip, now, storeVars, masterVars>>

JobInit ==
    /\ variant \in JobVariants
    /\ now = 1
    /\ jobs = [j \in Jobs |-> IdleJob]
    /\ tmpfiles = [q \in {} |-> 0]
    /\ store = JobClips(variant)
    /\ up = <<>>
    /\ playlist = {}
    /\ resets = 0
    /\ resetStatus = 0
    /\ master = <<>>
    /\ mtemps = <<>>
    /\ mup = <<>>
    /\ served = <<>>
    /\ cmd = <<>>
    /\ deck = <<>>
    /\ clip = <<>>
    /\ reply = <<>>
    /\ req = <<>>

JobNext ==
    \/ Tick
    \/ \E j \in Jobs, mode \in Modes, rnd \in RandValues : ComposeStart(j, mode, rnd)
    \/ \E j \in Jobs : ComposeData(j)
    \/ \E j \in Jobs : ComposeEnd(j)
    \/ \E j \in Jobs : ComposeError(j)
    \/ \E j \in Jobs : ClientClose(j)

\* Concurrent composition jobs with their engines and clients.
SpecJob == JobInit /\ [][JobNext]_vars

(***************************************************************************)
(* Claims about the composition job life cycle.                            *)
(***************************************************************************)
JobTerminal(j) ==
    \/ jobs[j].engine \in {"ended", "errored", "killed"}
    \/ jobs[j].engine # "none" /\ jobs[j].closed

\* C4: once a job that wrote a manifest has reached a terminal outcome
\* (engine 'end', engine 'error', client disconnect), the manifest it wrote
\* is no longer on disk.
C4_ManifestGoneAtTerminal ==
    \A j \in Jobs : JobTerminal(j) => ~OwnManifest(j)

\* C5: when the client connection has closed while the response had not
\* ended, the job's engine process is not left running: it has been killed.
C5_DisconnectKillsEngine ==
    \A j \in Jobs :
        (jobs[j].closed /\ ~jobs[j].ended) => jobs[j].engine # "running"

\* C6: two jobs never share a manifest path, and the manifest of a job whose
\* engine is running and whose client is connected is on disk as that job
\* wrote it: no other job has deleted or overwritten it.
C6_JobsAreIsolated ==
    /\ \A a, b \in Jobs :
          (a # b /\ HasList(a) /\ HasList(b)) => jobs[a].list # jobs[b].list
    /\ \A b \in Jobs :
          (HasList(b) /\ jobs[b].engine = "running" /\ ~jobs[b].closed)
              => OwnManifest(b)

\* C24: no step of a playback request - the start of the composition, its
\* output, its end, its failure, the client going away - changes the files of
\* the clip store.
C24_PlaybackLeavesStoreAlone ==
    [][store' = store]_vars

\* C24 witness: over a store of two clips one composition has failed and the
\* client of another has gone away.
C24_Witness ==
    /\ Cardinality(DOMAIN store) = 2
    /\ \E j, k \in Jobs :
          j # k /\ jobs[j].engine = "errored" /\ jobs[k].closed /\ HasList(k)

\* The place of a job in Idle -> Starting -> Streaming -> {Completed, Failed,
\* Cancelled}, read off what its handlers have done so far.
Phase(job) ==
    CASE job.engine = "none" -> "Idle"
      [] job.engine = "ended" -> "Completed"
      [] job.engine = "errored" -> "Failed"
      [] job.engine = "killed" -> "Cancelled"
      [] job.engine = "running" /\ job.closed -> "Cancelled"
      [] job.engine = "running" /\ ~job.closed /\ job.headersSent -> "Streaming"
      [] OTHER -> "Starting"

TerminalPhases == {"Completed", "Failed", "Cancelled"}

\* What has been written to the response.
Written(job) == <<job.headersSent, job.status, job.bodies, job.ended>>

PhaseSteps ==
    {<<"Idle", "Starting">>, <<"Starting", "Streaming">>}
    \cup {<<a, b>> : a \in {"Starting", "Streaming"}, b \in TerminalPhases}

\* C31: a job moves only along Idle -> Starting -> Streaming -> {Completed,
\* Failed, Cancelled} (a job may end before its first output), and once it is
\* terminal no later event changes its outcome or writes to the response.
C31_JobStateMachine ==
    [][\A j \in Jobs :
          /\ Phase(jobs'[j]) # Phase(jobs[j])
                => <<Phase(jobs[j]), Phase(jobs'[j])>> \in PhaseSteps
          /\ Phase(jobs[j]) \in TerminalPhases
                => Written(jobs'[j]) = Written(jobs[j])]_vars

\* C7: when the engine reports an error, the caller gets a 500 if no headers
\* had been sent; if headers had been sent the status stays as it was, no
\* second response body is written, and the stream is ended.
C7_EngineErrorResponse ==
    [][\A j \in Jobs :
          (jobs[j].engine # "errored" /\ jobs'[j].engine = "errored")
              => IF ~jobs[j].headersSent
                    THEN jobs'[j].status = 500 /\ jobs'[j].ended
                    ELSE /\ jobs'[j].status = jobs[j].status
                         /\ jobs'[j].bodies = jobs[j].bodies
                         /\ jobs'[j].ended]_vars

\* C7 witness: one job failed before any header was sent and got a 500, and
\* another failed while streaming and kept its 200 with the stream ended.
C7_Witness ==
    \E a, b \in Jobs :
        /\ jobs[a].engine = "errored" /\ jobs[a].status = 500 /\ jobs[a].bodies = 1
        /\ jobs[b].engine = "errored" /\ jobs[b].status = 200 /\ jobs[b].bodies = 0
        /\ jobs[b].ended

(***************************************************************************)
(* The crossfade-accumulation variant: every upload is blended into one    *)
(* master file by compileNewDrone.                                         *)
(***************************************************************************)
MasterVariants == {"server_js_master", "part_002_master"}

NoMaster == [exists |-> FALSE, complete |-> FALSE, parts |-> <<>>, writer |-> 0]

IdleCompile == [pc |-> "idle", first |-> FALSE, temp |-> 0, opened |-> FALSE,
                base |-> <<>>]

\* The 'error' handler of the first-recording branch: part_002 unlinks
\* MASTER_FILE, server.js leaves it.
FirstErrorCleanup(v, m) == IF v = "part_002_master" THEN NoMaster ELSE m

\* The 'error' handler of the crossfade branch: part_002 unlinks
\* tempOutputFile, server.js leaves it.
CrossfadeErrorCleanup(v, temps, t) ==
    IF v = "part_002_master" THEN RemoveFile(temps, t) ELSE temps

CompileArrives(u) ==
    /\ mup[u].pc = "idle"
    /\ \A w \in Uploads : w < u => mup[w].pc # "idle"

\* POST /api/upload -> compileNewDrone up to the engine being started.
CompileStart(u) ==
    /\ variant \in MasterVariants
    /\ CompileArrives(u)
    /\ mup' = [mup EXCEPT ![u] = [pc |-> "compiling",
                                  first |-> ~master.exists,
                                  temp |-> now,
                                  opened |-> FALSE,
                                  base |-> <<>>]]
    /\ UNCHANGED <<variant, deck, req, cmd, reply, clip, now, master, mtemps, served, storeVars, jobVars>>

\* The engine opens its inputs and its output: MASTER_FILE itself for the
\* first recording, tempOutputFile otherwise.
CompileOpen(u) ==
    /\ mup[u].pc = "compiling"
    /\ ~mup[u].opened
    /\ IF mup[u].first
          THEN /\ master' = [exists |-> TRUE, complete |-> FALSE,
                             parts |-> <<>>, writer |-> u]
               /\ mtemps' = mtemps
               /\ mup' = [mup EXCEPT ![u].opened = TRUE]
          ELSE /\ master.exists
               /\ mtemps' = PutFile(mtemps, mup[u].temp,
                                    [complete |-> FALSE, parts |-> <<>>, writer |-> u])
               /\ master' = master
               /\ mup' = [mup EXCEPT ![u].opened = TRUE, ![u].base = master.parts]
    /\ UNCHANGED <<variant, deck, req, cmd, reply, clip, now, served, storeVars, jobVars>>

\* The engine exits successfully and 'end' fires: resolve() for the first
\* recording, fs.renameSync(tempOutputFile, MASTER_FILE) otherwise.
CompileEnd(u) ==
    /\ mup[u].pc = "compiling"
    /\ mup[u].opened
    /\ IF mup[u].first
          THEN /\ master' = IF master.exists /\ master.writer = u
                               THEN [master EXCEPT !.complete = TRUE, !.parts = <<u>>]
                               ELSE master
               /\ mtemps' = mtemps
               /\ mup' = [mup EXCEPT ![u].pc = "done"]
          ELSE IF Exists(mtemps, mup[u].temp)
                  THEN LET f == mtemps[mup[u].temp]
                           out == IF f.writer = u
                                     THEN [complete |-> TRUE,
                                           parts |-> Append(mup[u].base, u),
                                           writer |-> u]
                                     ELSE f
                       IN /\ master' = [exists |-> TRUE, complete |-> out.complete,
                                        parts |-> out.parts, writer |-> out.writer]
                          /\ mtemps' = RemoveFile(mtemps, mup[u].temp)
                          /\ mup' = [mup EXCEPT ![u].pc = "done"]
                  ELSE \* renameSync throws inside the event handler
                       /\ mup' = [mup EXCEPT ![u].pc = "crashed"]
                       /\ UNCHANGED <<master, mtemps>>
    /\ UNCHANGED <<variant, deck, req, cmd, reply, clip, now, served, storeVars, jobVars>>

\* The engine fails: 'error' handler, reject, 500.
CompileError(u) ==
    /\ mup[u].pc = "compiling"
    /\ IF mup[u].first
          THEN /\ master' = FirstErrorCleanup(variant, master)
               /\ mtemps' = mtemps
          ELSE /\ mtemps' = CrossfadeErrorCleanup(variant, mtemps, mup[u].temp)
               /\ master' = master
    /\ mup' = [mup EXCEPT ![u].pc = "failed"]
    /\ UNCHANGED <<variant, deck, req, cmd, reply, clip, now, served, storeVars, jobVars>>

\* GET /api/master_drone of this variant: 404 or res.sendFile(MASTER_FILE).
ServeMaster ==
    /\ variant \in MasterVariants
    /\ served' = IF ~master.exists THEN "404"
                 ELSE IF master.complete THEN "complete" ELSE "partial"
    /\ UNCHANGED <<variant, deck, req, cmd, reply, clip, now, master, mtemps, mup, storeVars, jobVars>>

MasterInit ==
    /\ variant \in MasterVariants
    /\ now = 1
    /\ master = NoMaster
    /\ mtemps = [q \in {} |-> [complete |-> FALSE, parts |-> <<>>, writer |-> 0]]
    /\ mup = [u \in Uploads |-> IdleCompile]
    /\ served = "none"
    /\ cmd = <<>>
    /\ deck = <<>>
    /\ clip = <<>>
    /\ reply = <<>>
    /\ req = <<>>
    /\ store = <<>>
    /\ up = <<>>
    /\ playlist = {}
    /\ resets = 0
    /\ resetStatus = 0
    /\ jobs = <<>>
    /\ tmpfiles = <<>>

MasterNext ==
    \/ Tick
    \/ \E u \in Uploads : CompileStart(u)
    \/ \E u \in Uploads : CompileOpen(u)
    \/ \E u \in Uploads : CompileEnd(u)
    \/ \E u \in Uploads : CompileError(u)
    \/ ServeMaster

\* Concurrent uploads and playback requests of the accumulation variant.
SpecMaster == MasterInit /\ [][MasterNext]_vars

(***************************************************************************)
(* Claims about the accumulation variant.                                  *)
(***************************************************************************)

\* C10: whenever the master file exists it is the complete output of a
\* finished engine run, and GET /api/master_drone never sends a partially
\* written master.
C10_MasterAlwaysComplete ==
    /\ master.exists => master.complete
    /\ served # "partial"

\* How often upload u's recording is in the blend `parts`.
Contributions(parts, u) == Cardinality({i \in DOMAIN parts : parts[i] = u})

\* C32: when concurrent uploads have all returned success, the master holds
\* the contribution of each of them exactly once, and no two uploads that
\* blend at the same time share a temp output path.
C32_EveryContributionOnce ==
    /\ (\A u \in Uploads : mup[u].pc = "done")
          => /\ master.exists
             /\ \A u \in Uploads : Contributions(master.parts, u) = 1
    /\ \A a, b \in Uploads :
          (/\ a # b
           /\ mup[a].pc = "compiling" /\ ~mup[a].first
           /\ mup[b].pc = "compiling" /\ ~mup[b].first)
          => mup[a].temp # mup[b].temp

\* C33: when the blend of a subsequent upload fails, the master is as it was,
\* the temp output of that blend is gone, and the upload has failed.
C33_FailedBlendCleansUp ==
    [][\A u \in Uploads :
          (mup[u].pc = "compiling" /\ ~mup[u].first /\ mup'[u].pc = "failed")
              => /\ master' = master
                 /\ ~Exists(mtemps', mup[u].temp)]_vars

(***************************************************************************)
(* One playback request from the directory listing to the response:        *)
(* GET /api/master_drone of the snapshots that keep one file per clip, and *)
(* GET /api/playlist of the normalizeAudio snapshot.  The store does not   *)
(* change while this request is looked at.                                 *)
(***************************************************************************)
MaxClips == 3
MaxStamp == 4

PlaybackVariants == JobVariants \cup {"part_002_playlist"}

Orders == {"special", "absent"}

\* Sizes of the files found in the store: an empty file and a real clip.
CatalogSizes == {0, MinClipSize + 1}

CatalogFiles ==
    [size : CatalogSizes, complete : {TRUE}, writer : {0}, mtime : 1..MaxStamp]

\* The stores a request can find: at most MaxClips files named by distinct
\* Date.now() values, each last written at or after the instant in its name.
Catalogs(v) ==
    UNION {{s \in [{[t |-> x, ext |-> FinalExt(v, ".webm")] : x \in T} -> CatalogFiles] :
               \A p \in DOMAIN s : s[p].mtime >= p.t} :
           T \in {T \in SUBSET (1..MaxStamp) : Cardinality(T) <= MaxClips}}

\* fs.readdirSync: the entries of the directory in an order the file system
\* chooses.
DirOrders(s) ==
    {d \in [1..Cardinality(DOMAIN s) -> DOMAIN s] :
        \A i, j \in DOMAIN d : i # j => d[i] # d[j]}

\* Array.prototype.sort((a, b) => b.time - a.time): stable, newest first.
InsertNewestFirst(v, s, sorted, p) ==
    LET before == {i \in 1..Len(sorted) :
                      SortKey(v, s, sorted[i]) >= SortKey(v, s, p)}
        k == IF before = {} THEN 0
             ELSE CHOOSE i \in before : \A j \in before : j <= i
    IN SubSeq(sorted, 1, k) \o <<p>> \o SubSeq(sorted, k + 1, Len(sorted))

RECURSIVE SortNewestFirst(_, _, _)
SortNewestFirst(v, s, list) ==
    IF list = <<>> THEN <<>>
    ELSE InsertNewestFirst(v, s,
                           SortNewestFirst(v, s, SubSeq(list, 1, Len(list) - 1)),
                           list[Len(list)])

\* readdirSync(...).filter(extension).map(stat).filter(size).sort(...)
Listing(v, s, dir) ==
    SortNewestFirst(v, s, SelectSeq(dir, LAMBDA p : p \in Candidates(v, s)))

\* The listings the handler can compute from one store.
Listings(v, s) == {Listing(v, s, dir) : dir \in DirOrders(s)}

\* Array.prototype.reverse
Reverse(list) == [i \in 1..Len(list) |-> list[Len(list) + 1 - i]]

\* [a[i], a[j]] = [a[j], a[i]]
Swap(a, i, j) == [a EXCEPT ![i] = a[j], ![j] = a[i]]

\* Math.random() returns k / RandomUnit for some k in 0..RandomUnit-1.
RandomUnit == MaxClips
RandomSource == 0..(RandomUnit - 1)

\* The values Math.random() returns while n files are put in order: one for
\* each pass of the shuffle loop over the n - 1 files after the anchor, none
\* when the shuffle does not run.
RandomDraws(shuffles, n) ==
    IF shuffles THEN [2..(n - 1) -> RandomSource] ELSE {<<>>}

\* for (i = a.length - 1; i > 0; i--) { j = Math.floor(Math.random() * (i + 1));
\* swap } with positions counted from 1: pass i of the loop is pass n here,
\* n = i + 1.
RECURSIVE FisherYates(_, _, _)
FisherYates(a, n, rnd) ==
    IF n < 2 THEN a
    ELSE FisherYates(Swap(a, n, ((rnd[n] * n) \div RandomUnit) + 1), n - 1, rnd)

\* A shuffle anchored on the last element of the listing.
AnchoredShuffle_oldestAnchor(files, rnd) ==
    IF files = <<>> THEN <<NoPath>>
    ELSE <<files[Len(files)]>>
         \o FisherYates(SubSeq(files, 1, Len(files) - 1), Len(files) - 1, rnd)

\* mostRecent = files.shift(); shuffle(others); [mostRecent, ...others].
\* shift() of an empty array gives undefined, written NoPath.
AnchoredShuffle(files, rnd) ==
    IF files = <<>> THEN <<NoPath>>
    ELSE <<Head(files)>> \o FisherYates(Tail(files), Len(files) - 1, rnd)

\* The special ordering without the test of the length.
SpecialApplies_noGuard(v, order, n) == order = "special"

\* The condition under which the special ordering is applied to n files.
SpecialApplies(v, order, n) ==
    /\ order = "special"
    /\ v \in {"part_001", "part_003"} \/ n > 1

\* An else branch that leaves the listing as it is.
Chronological_newestFirst(v, files) == files

\* The else branch of the ordering.
Chronological(v, files) ==
    IF v = "part_002_playlist" THEN files ELSE Reverse(files)

Sequenced(v, order, files, rnd) ==
    IF SpecialApplies(v, order, Len(files))
       THEN AnchoredShuffle(files, rnd)
       ELSE Chronological(v, files)

IdleRequest ==
    [pc |-> "idle", order |-> "absent", files |-> <<>>, probes |-> <<>>,
     status |-> 0, body |-> "none", sent |-> NoPath, playlist |-> <<>>,
     engine |-> FALSE, manifest |-> FALSE]

\* A validation that gives up every file when one probe fails.
Validated_rejectAll(files, probes) ==
    IF \E i \in 1..Len(files) : probes[i] = "null" THEN <<>>
    ELSE SelectSeq(files, LAMBDA p : \E i \in 1..Len(files) :
                                        files[i] = p /\ probes[i] = "ok")

\* validatedFiles.filter(Boolean): the files whose probe resolved with the
\* file object, in the order of the listing.
Validated(files, probes) ==
    LET ok == {i \in 1..Len(files) : probes[i] = "ok"}
    IN SelectSeq(files, LAMBDA p : \E i \in ok : files[i] = p)

\* res.status(404).send('The communal ahhh has not started yet!')
EmptyState(r) ==
    [r EXCEPT !.pc = "responded", !.status = 404, !.body = "empty"]

\* A single file passed through the engine.
SendFile_viaEngine(r, path) ==
    [r EXCEPT !.pc = "responded", !.status = 200, !.body = "stream",
              !.playlist = <<path>>, !.engine = TRUE]

\* res.setHeader('Content-Type', ...); res.sendFile(path)
SendFile(r, path) ==
    [r EXCEPT !.pc = "responded", !.status = 200, !.body = "file", !.sent = path]

\* The playlist is handed to the engine whose output is piped to the response.
Compose(r, v, mode, list) ==
    [r EXCEPT !.pc = "responded", !.status = 200, !.body = "stream",
              !.playlist = list, !.engine = TRUE,
              !.manifest = WritesManifest(v, mode)]

\* res.json(urls) of GET /api/playlist
SendJson(r, list) ==
    [r EXCEPT !.pc = "responded", !.status = 200, !.body = "json", !.playlist = list]

\* A handler without the single-file return.
Branch_composeAlways(v, n) == IF n = 0 THEN "empty" ELSE "sequence"

\* What the handler does with the n eligible files: 0, 1, or 2 and more.
Branch(v, n) ==
    CASE n = 0 -> "empty"
      [] n = 1 /\ v # "server_js" -> "single"
      [] OTHER -> "sequence"

\* The handler from the eligible files to the response.
Respond(r, v, files, order, mode, rnd) ==
    LET q == [r EXCEPT !.order = order] IN
    IF v = "part_002_playlist"
       THEN SendJson(q, Sequenced(v, order, files, rnd))
       ELSE CASE Branch(v, Len(files)) = "empty" -> EmptyState(q)
              [] Branch(v, Len(files)) = "single" -> SendFile(q, files[1])
              [] OTHER ->
                   LET list == Sequenced(v, order, files, rnd)
                   IN IF v = "server_js" /\ Len(list) = 1
                         THEN SendFile(q, list[1])
                         ELSE Compose(q, v, mode, list)

\* A continuation that runs as soon as one probe has called back.
AllSettled_firstOnly(probes) ==
    probes = <<>> \/ \E i \in 1..Len(probes) : probes[i] # "pending"

\* Promise.all(validationPromises) is fulfilled: every probe has called back.
AllSettled(probes) == \A i \in 1..Len(probes) : probes[i] # "pending"

\* The snapshots without ffprobe: the whole handler runs in one turn.
\* Its inputs are the order of the directory entries, the query parameters
\* and the values of Math.random().
ListAndRespond ==
    /\ ~HasProbe(variant)
    /\ req.pc = "idle"
    /\ \E files \in Listings(variant, store), order \in Orders, mode \in Modes :
        \E rnd \in RandomDraws(SpecialApplies(variant, order, Len(files)), Len(files)) :
          req' = Respond([req EXCEPT !.files = files,
                                     !.probes = [i \in 1..Len(files) |-> "ok"]],
                         variant, files, order, mode, rnd)
    /\ UNCHANGED <<variant, deck, cmd, reply, clip, now, storeVars, jobVars, masterVars>>

\* The snapshots with ffprobe: the listing, then one probe per candidate is
\* started.
ListAndProbe ==
    /\ HasProbe(variant)
    /\ req.pc = "idle"
    /\ \E files \in Listings(variant, store) :
          req' = [req EXCEPT !.pc = "probing", !.files = files,
                             !.probes = [i \in 1..Len(files) |-> "pending"]]
    /\ UNCHANGED <<variant, deck, cmd, reply, clip, now, storeVars, jobVars, masterVars>>

\* The callback of one ffprobe: resolve(file), or resolve(null) on an error
\* or when no stream has codec_type 'audio'.
ProbeReturns(i, ok) ==
    /\ req.pc = "probing"
    /\ i \in 1..Len(req.probes)
    /\ req.probes[i] = "pending"
    /\ req' = [req EXCEPT !.probes[i] = IF ok THEN "ok" ELSE "null"]
    /\ UNCHANGED <<variant, deck, cmd, reply, clip, now, storeVars, jobVars, masterVars>>

\* The continuation of Promise.all(validationPromises).
ThenRespond(order, mode) ==
    /\ req.pc = "probing"
    /\ AllSettled(req.probes)
    /\ \E files \in {Validated(req.files, req.probes)} :
        \E rnd \in RandomDraws(SpecialApplies(variant, order, Len(files)), Len(files)) :
          req' = Respond(req, variant, files, order, mode, rnd)
    /\ UNCHANGED <<variant, deck, cmd, reply, clip, now, storeVars, jobVars, masterVars>>

PlaybackInit ==
    /\ variant \in PlaybackVariants
    /\ now = 1
    /\ store \in Catalogs(variant)
    /\ req = IdleRequest
    /\ up = <<>>
    /\ playlist = {}
    /\ resets = 0
    /\ resetStatus = 0
    /\ jobs = <<>>
    /\ tmpfiles = <<>>
    /\ master = <<>>
    /\ mtemps = <<>>
    /\ mup = <<>>
    /\ served = <<>>
    /\ cmd = <<>>
    /\ deck = <<>>
    /\ clip = <<>>
    /\ reply = <<>>

PlaybackNext ==
    \/ ListAndRespond
    \/ ListAndProbe
    \/ \E i \in 1..MaxClips, ok \in BOOLEAN : ProbeReturns(i, ok)
    \/ \E order \in Orders, mode \in Modes : ThenRespond(order, mode)

\* One playback request over every store content.
SpecPlayback == PlaybackInit /\ [][PlaybackNext]_vars

\* The eligible clips of the request, newest first.
Eligible == Validated(req.files, req.probes)

Range(list) == {list[i] : i \in 1..Len(list)}

\* The clips the response carries: the file sent, or the playlist.
Served == Range(req.playlist) \cup (IF req.body = "file" THEN {req.sent} ELSE {})

Key(p) == SortKey(variant, store, p)

DistinctKeys(list) ==
    \A i, j \in 1..Len(list) : i # j => Key(list[i]) # Key(list[j])

\* C11: GET /api/master_drone answers zero eligible clips with the 404
\* empty-state and starts no engine, sends the file of exactly one eligible
\* clip directly, and orders and composes two or more.
C11_ZeroOneManyBranches ==
    (variant \in JobVariants /\ req.pc = "responded") =>
        /\ Len(Eligible) = 0 =>
              req.body = "empty" /\ req.status = 404 /\ req.status < 500 /\ ~req.engine
        /\ Len(Eligible) = 1 =>
              req.body = "file" /\ req.sent = Eligible[1] /\ ~req.engine
        /\ Len(Eligible) >= 2 =>
              /\ req.body = "stream" /\ req.engine
              /\ Len(req.playlist) = Len(Eligible)
              /\ Range(req.playlist) = Range(Eligible)

\* C11 witness: the probes left exactly one of several candidates and its
\* file was sent.
C11_Witness ==
    /\ variant = "part_001" /\ req.pc = "responded"
    /\ Len(req.files) >= 2 /\ Len(Eligible) = 1 /\ req.body = "file"

\* C12: with exactly one eligible clip the response is that clip's file,
\* whatever the order parameter; no engine runs and no manifest is written.
C12_SingleClipSentDirectly ==
    (variant \in JobVariants /\ req.pc = "responded" /\ Len(Eligible) = 1) =>
        /\ req.body = "file" /\ req.status = 200
        /\ req.sent = Eligible[1]
        /\ ~req.engine /\ ~req.manifest /\ req.playlist = <<>>

\* C12 witness: the snapshot that orders before it looks for a single file
\* has answered order=special with the only clip.
C12_Witness ==
    /\ variant = "server_js" /\ req.pc = "responded" /\ req.order = "special"
    /\ Len(Eligible) = 1 /\ req.body = "file"

\* C13: without order=special, two or more eligible clips with pairwise
\* distinct times are handed to the engine strictly oldest first.
C13_ChronologicalOldestFirst ==
    (/\ variant \in JobVariants /\ req.pc = "responded"
     /\ req.order # "special" /\ Len(Eligible) >= 2 /\ DistinctKeys(Eligible)) =>
        /\ Len(req.playlist) = Len(Eligible)
        /\ Range(req.playlist) = Range(Eligible)
        /\ \A i, j \in 1..Len(req.playlist) :
              i < j => Key(req.playlist[i]) < Key(req.playlist[j])

\* C13 witness: three clips whose times do not follow their names were put
\* in chronological order.
C13_Witness ==
    /\ variant \in JobVariants /\ req.pc = "responded" /\ req.order # "special"
    /\ Len(Eligible) >= 3 /\ DistinctKeys(Eligible) /\ req.engine
    /\ \E i, j \in 1..Len(req.playlist) :
          req.playlist[i].t > req.playlist[j].t /\ i < j

\* C14: under order=special with two or more eligible clips, whatever the
\* random source returns, the playlist starts with the most recent eligible
\* clip and goes on with a permutation of the other eligible clips.
C14_AnchoredShuffle ==
    (req.pc = "responded" /\ req.order = "special" /\ Len(Eligible) >= 2) =>
        /\ Len(req.playlist) = Len(Eligible)
        /\ req.playlist[1] = Eligible[1]
        /\ \A p \in Range(Eligible) : Key(p) <= Key(req.playlist[1])
        /\ Range(Tail(req.playlist)) = Range(Tail(Eligible))
        /\ req.playlist[1] \notin Range(Tail(req.playlist))
        /\ \A i, j \in 1..Len(req.playlist) :
              i # j => req.playlist[i] # req.playlist[j]

\* C14 witness: three clips of different times, and the two older ones have
\* changed places behind the anchor.
C14_Witness ==
    /\ req.pc = "responded" /\ req.order = "special"
    /\ Len(Eligible) = 3 /\ DistinctKeys(Eligible)
    /\ req.playlist = <<Eligible[1], Eligible[3], Eligible[2]>>

\* C15: order=special with no eligible clip or with one gives what the
\* default order gives: the empty state (an empty list from GET /api/playlist)
\* for none, exactly the one clip for one, and no shuffle.
C15_SpecialWithFewClips ==
    (req.pc = "responded" /\ req.order = "special" /\ Len(Eligible) <= 1) =>
        /\ ~req.engine
        /\ variant \in JobVariants /\ Len(Eligible) = 0 =>
              req.body = "empty" /\ req.status = 404 /\ Served = {}
        /\ variant \in JobVariants /\ Len(Eligible) = 1 =>
              req.body = "file" /\ req.sent = Eligible[1]
        /\ variant = "part_002_playlist" =>
              req.body = "json" /\ req.playlist = Eligible

\* C15 witness: GET /api/playlist?order=special has answered over a store
\* without a clip.
C15_Witness ==
    /\ variant = "part_002_playlist" /\ req.pc = "responded"
    /\ req.order = "special" /\ Len(Eligible) = 0 /\ req.body = "json"

\* C16: no response carries a clip file of zero bytes.
C16_NoEmptyFileServed ==
    req.pc = "responded" => \A p \in Served : store[p].size > 0

\* C17: a probe that fails or finds no audio stream removes exactly its own
\* clip: the response carries the clips whose probe succeeded, all of them,
\* and it is not an error response.
C17_FailedProbeExcludesOnlyItsClip ==
    (HasProbe(variant) /\ req.pc = "responded") =>
        /\ Served = {req.files[i] : i \in {k \in 1..Len(req.files) : req.probes[k] = "ok"}}
        /\ req.status \in {200, 404}
        /\ req.status = 404 => \A i \in 1..Len(req.probes) : req.probes[i] # "ok"

\* C17 witness: one probe failed, two succeeded, and the two clips were
\* handed to the engine.
C17_Witness ==
    /\ variant = "part_003" /\ req.pc = "responded"
    /\ \E i \in 1..Len(req.probes) : req.probes[i] = "null"
    /\ Len(req.playlist) = 2 /\ req.engine

\* C18: nothing is sequenced or answered while a probe is pending, and what
\* is answered is fixed by the listing and the probe results alone.
C18_ResponseWaitsForAllProbes ==
    (HasProbe(variant) /\ (req.pc = "responded" \/ req.status # 0 \/ req.playlist # <<>>)) =>
        /\ \A i \in 1..Len(req.probes) : req.probes[i] # "pending"
        /\ req.order # "special" /\ req.engine =>
              req.playlist = Reverse(SelectSeq(req.files,
                                 LAMBDA p : \E i \in 1..Len(req.files) :
                                               req.files[i] = p /\ req.probes[i] = "ok"))

\* C18 witness: three probes have returned and the request has been answered
\* with a stream.
C18_Witness ==
    /\ variant = "part_001" /\ req.pc = "responded"
    /\ Len(req.probes) = 3 /\ req.engine /\ req.order # "special"

\* C34: GET /api/playlist without order=special returns the stored clips
\* oldest first, by the timestamp of their names, and every stored .mp4 clip
\* is in the list exactly once.
C34_PlaylistOldestFirst ==
    (variant = "part_002_playlist" /\ req.pc = "responded" /\ req.order # "special") =>
        /\ \A i, j \in 1..Len(req.playlist) :
              i < j => req.playlist[i].t < req.playlist[j].t
        /\ Range(req.playlist) = {p \in DOMAIN store : p.ext = ".mp4"}
        /\ Len(req.playlist) = Cardinality(Range(req.playlist))

(***************************************************************************)
(* POST /api/reset over a store whose uploads have all finished, followed  *)
(* by a playback request before any new upload.                            *)
(***************************************************************************)
ResetInit ==
    /\ variant \in StoreVariants
    /\ now = 1
    /\ store \in Catalogs(variant)
    /\ req = IdleRequest
    /\ resets = 0
    /\ resetStatus = 0
    /\ up = <<>>
    /\ playlist = {}
    /\ jobs = <<>>
    /\ tmpfiles = <<>>
    /\ master = <<>>
    /\ mtemps = <<>>
    /\ mup = <<>>
    /\ served = <<>>
    /\ cmd = <<>>
    /\ deck = <<>>
    /\ clip = <<>>
    /\ reply = <<>>

\* The playback request is issued once a reset has answered 200.
RequestAfterReset == resets > 0 /\ (ListAndRespond \/ ListAndProbe)

ResetNext ==
    \/ \E secret \in Secrets : Reset(secret)
    \/ RequestAfterReset
    \/ \E order \in Orders, mode \in Modes : ThenRespond(order, mode)

\* Resets with any secret, then one playback request.
SpecReset == ResetInit /\ [][ResetNext]_vars

\* C21: a reset request whose secret differs from the configured one, or
\* that carries none, is answered 403 and leaves the store as it was; only a
\* request with the configured secret changes the store.
C21_ResetGate ==
    [][\A secret \in Secrets :
          Reset(secret) =>
             /\ secret # RESET_SECRET => resetStatus' = 403 /\ store' = store
             /\ store' # store => secret = RESET_SECRET /\ resetStatus' = 200]_vars

\* C21 witness: a reset has been refused over a store that holds clips.
C21_Witness ==
    resetStatus = 403 /\ resets = 0 /\ Cardinality(DOMAIN store) >= 2

\* C22: after a reset has answered 200 with no upload in flight the store
\* holds no file, and the playback request that follows is answered with the
\* empty state (an empty list by GET /api/playlist).
C22_EmptyAfterReset ==
    /\ resets > 0 => store = EmptyStore
    /\ req.pc = "responded" =>
          /\ Served = {} /\ ~req.engine
          /\ IF variant = "part_002_playlist"
                THEN req.body = "json" /\ req.playlist = <<>>
                ELSE req.body = "empty" /\ req.status = 404

\* C22 witness: the request after the reset has been answered 404.
C22_Witness ==
    resets > 0 /\ resetStatus = 200 /\ req.pc = "responded" /\ req.status = 404

\* C23: the file of a clip whose upload has answered success is not removed
\* and not changed by any step other than a reset that runs its delete loop.
C23_PublishedClipImmutable ==
    [][\A u \in Uploads :
          (/\ up[u].pc = "done" /\ OwnFile(u)
           /\ store[up[u].path].complete
           /\ resets' = resets)
          => /\ Exists(store', up[u].path)
             /\ store'[up[u].path] = store[up[u].path]]_vars

\* ---------------------------------------------------------------------------
\* The engine command: what a handler gives ffmpeg for a playlist of two or
\* more clips.  A path is a sequence of characters, so that the quoting of
\* the concat list is something a path can break.
\* ---------------------------------------------------------------------------

MaxNameLen == 2

Chars == {"a", "'"}

Names == UNION {[1..n -> Chars] : n \in 1..MaxNameLen}

\* Playlists of at least two clips; the files of a directory are distinct.
Playlists ==
    {l \in UNION {[1..n -> Names] : n \in 2..MaxClips} :
        \A i, k \in DOMAIN l : i # k => l[i] # l[k]}

\* p.replace(/'/g, "'\\''")
RECURSIVE EscapeQuotes(_)
EscapeQuotes(p) ==
    IF p = <<>> THEN <<>>
    ELSE (IF Head(p) = "'" THEN <<"'", "\\", "'", "'">> ELSE <<Head(p)>>)
         \o EscapeQuotes(Tail(p))

\* The argument of one "file" line of the list: part_000 escapes the quotes
\* of the path, part_003 writes the path between quotes as it is.
ManifestLine(v, p) ==
    <<"'">> \o (IF v = "part_000" THEN EscapeQuotes(p) ELSE p) \o <<"'">>

ManifestLines(v, mode, list) ==
    IF WritesManifest(v, mode)
    THEN [i \in DOMAIN list |-> ManifestLine(v, list[i])]
    ELSE <<>>

\* How the concat demuxer (-f concat) reads the argument of a "file" line:
\* between single quotes every character is literal up to the next quote;
\* outside quotes a backslash makes the next character literal.
RECURSIVE GetToken(_, _, _)
GetToken(s, i, quoted) ==
    IF i > Len(s) THEN <<>>
    ELSE IF quoted
         THEN IF s[i] = "'" THEN GetToken(s, i + 1, FALSE)
              ELSE <<s[i]>> \o GetToken(s, i + 1, TRUE)
         ELSE IF s[i] = "'" THEN GetToken(s, i + 1, TRUE)
              ELSE IF s[i] = "\\"
                   THEN IF i + 1 <= Len(s)
                        THEN <<s[i + 1]>> \o GetToken(s, i + 2, FALSE)
                        ELSE <<>>
                   ELSE <<s[i]>> \o GetToken(s, i + 1, FALSE)

ReadManifest(lines) == [i \in DOMAIN lines |-> GetToken(lines[i], 1, FALSE)]

\* The clips given with command.input(file), in call order.
DirectInputs(v, mode, list) ==
    CASE v = "part_000" -> <<>>
      [] v = "part_003" -> IF mode = "simultaneous" THEN list ELSE list \o list
      [] OTHER -> list

\* The filter or demuxer that joins the inputs.
Strategy(v, mode) ==
    CASE v = "part_000" -> "concat"
      [] v = "part_003" -> IF mode = "simultaneous" THEN "concat" ELSE "amix"
      [] v = "server_js" -> "acrossfade"
      [] OTHER -> IF mode = "sequential" THEN "concat" ELSE "amix"

NoCommand ==
    [pc |-> "idle", mode |-> "absent", playlist |-> <<>>, inputs |-> <<>>,
     lines |-> <<>>, strategy |-> "none"]

BuildCommand(mode, list) ==
    /\ variant \in JobVariants
    /\ cmd.pc = "idle"
    /\ cmd' = [pc |-> "built", mode |-> mode, playlist |-> list,
               inputs |-> DirectInputs(variant, mode, list),
               lines |-> ManifestLines(variant, mode, list),
               strategy |-> Strategy(variant, mode)]
    /\ UNCHANGED <<variant, deck, req, reply, clip, now, storeVars, jobVars, masterVars>>

CommandInit ==
    /\ variant \in JobVariants
    /\ cmd = NoCommand
    /\ deck = <<>>
    /\ clip = <<>>
    /\ reply = <<>>
    /\ req = <<>>
    /\ now = 0
    /\ store = <<>>
    /\ up = <<>>
    /\ playlist = <<>>
    /\ resets = 0
    /\ resetStatus = 0
    /\ jobs = <<>>
    /\ tmpfiles = {}
    /\ master = <<>>
    /\ mtemps = {}
    /\ mup = <<>>
    /\ served = <<>>

CommandNext == \E mode \in Modes, list \in Playlists : BuildCommand(mode, list)

SpecCommand == CommandInit /\ [][CommandNext]_vars

\* Every clip the engine reads, in order: the direct inputs, then the files
\* named by the list.
EngineReads(c) == c.inputs \o ReadManifest(c.lines)

\* C25: for a playlist of two or more clips, the inputs handed to the engine
\* are exactly the playlist: every clip once, in playlist order, nothing else.
C25_InputsArePlaylist ==
    cmd.pc = "built" => EngineReads(cmd) = cmd.playlist

\* C26: mode=sequential runs a back-to-back concatenation and
\* mode=simultaneous runs a mix, never the other strategy.
C26_ModeChoosesStrategy ==
    cmd.pc = "built" =>
        /\ cmd.mode = "sequential" => cmd.strategy = "concat"
        /\ cmd.mode = "simultaneous" => cmd.strategy = "amix"

\* C30: a concat list has one line per playlist clip, in playlist order, and
\* reading it back under the concat quoting rules gives the original paths.
C30_ManifestRoundTrip ==
    (cmd.pc = "built" /\ cmd.lines # <<>>) =>
        /\ Len(cmd.lines) = Len(cmd.playlist)
        /\ ReadManifest(cmd.lines) = cmd.playlist

\* ---------------------------------------------------------------------------
\* The failure of an upload as its caller sees it: the Error that trimAndSave
\* (normalizeAudio) rejects with, and the response the catch block of
\* POST /api/upload makes of it.
\* ---------------------------------------------------------------------------

Causes == {"unreadable", "engine", "degenerate"}

\* err.message of the engine's 'error' event: the engine's own report, which
\* names a source it cannot open.
EngineMessage(cause) ==
    IF cause = "unreadable" THEN "cannot open input" ELSE "exited with code 1"

Resolved == [text |-> "resolved", detail |-> "none"]

\* The value trimAndSave settles with.  A degenerate result is the empty
\* output file, which only the snapshots with a size check reject.
TrimRejection(v, cause) ==
    IF cause = "degenerate"
    THEN IF ~RejectsSize(v, 0) THEN Resolved
         ELSE [text |-> CASE v = "part_000" -> "Recording empty after trimming."
                          [] v = "part_004" ->
                               "Recording was empty after trimming silence and was discarded."
                          [] OTHER -> "Processed file was too small and was discarded.",
               detail |-> "none"]
    ELSE [text |-> CASE v = "part_000" -> "FFmpeg trimming error: "
                     [] v = "part_002_playlist" -> ""
                     [] OTHER -> "FFmpeg processing error: ",
          detail |-> EngineMessage(cause)]

\* Only three snapshots put error.message in the body.
SendsErrorMessage(v) == v \in {"part_001", "part_003", "part_002_playlist"}

UploadResponse(v, rejection) ==
    IF rejection = Resolved
    THEN [status |-> 200, message |-> "Successfully added to the communal ahhh!",
          error |-> Resolved]
    ELSE [status |-> 500, message |-> "Failed to process the new recording.",
          error |-> IF SendsErrorMessage(v) THEN rejection
                    ELSE [text |-> "absent", detail |-> "none"]]

NoReply ==
    [pc |-> "idle", cause |-> "none", rejection |-> Resolved,
     response |-> [status |-> 0, message |-> "", error |-> Resolved]]

TrimSettles(u, cause) ==
    /\ variant \in StoreVariants
    /\ reply[u].pc = "idle"
    /\ reply' = [reply EXCEPT ![u] = [@ EXCEPT !.pc = "settled", !.cause = cause,
                                        !.rejection = TrimRejection(variant, cause)]]
    /\ UNCHANGED <<variant, deck, req, cmd, clip, now, storeVars, jobVars, masterVars>>

UploadResponds(u) ==
    /\ reply[u].pc = "settled"
    /\ reply' = [reply EXCEPT ![u] = [@ EXCEPT !.pc = "responded",
                     !.response = UploadResponse(variant, reply[u].rejection)]]
    /\ UNCHANGED <<variant, deck, req, cmd, clip, now, storeVars, jobVars, masterVars>>

ReplyInit ==
    /\ variant \in StoreVariants
    /\ reply = [u \in Uploads |-> NoReply]
    /\ cmd = <<>>
    /\ deck = <<>>
    /\ clip = <<>>
    /\ req = <<>>
    /\ now = 0
    /\ store = <<>>
    /\ up = <<>>
    /\ playlist = <<>>
    /\ resets = 0
    /\ resetStatus = 0
    /\ jobs = <<>>
    /\ tmpfiles = {}
    /\ master = <<>>
    /\ mtemps = {}
    /\ mup = <<>>
    /\ served = <<>>

ReplyNext ==
    \/ \E u \in Uploads, cause \in Causes : TrimSettles(u, cause)
    \/ \E u \in Uploads : UploadResponds(u)

SpecReply == ReplyInit /\ [][ReplyNext]_vars

\* C29: an unreadable source, an engine failure and a degenerate result give
\* pairwise different error values in the response of POST /api/upload.
C29_CausesTellApart ==
    \A u, w \in Uploads :
        (/\ reply[u].pc = "responded"
         /\ reply[w].pc = "responded"
         /\ reply[u].cause # reply[w].cause)
        => reply[u].response # reply[w].response

\* ---------------------------------------------------------------------------
\* trimAndSave's filter chain on the samples of one clip:
\*   silenceremove=start_periods=1:start_duration=1:start_threshold=0.02,
\*   areverse, the same silenceremove, areverse.
\* A sample is silent (at or below start_threshold) or audible.
\* ---------------------------------------------------------------------------

MaxSamples == 5

\* start_duration=1: the number of samples in the one second of unbroken
\* non-silence that silenceremove waits for before it stops trimming.
StartDuration == 2

Samples == {"silent", "audible"}

SampleSeqs == UNION {[1..n -> Samples] : n \in 0..MaxSamples}

SilenceRemove_dropFirst(x) == IF x = <<>> THEN <<>> ELSE Tail(x)

\* silenceremove with start_periods=1: samples are dropped until
\* start_duration of unbroken non-silence is seen; an audible burst shorter
\* than that is dropped with the silence around it.  From there on every
\* sample is copied.
RECURSIVE SilenceRemove(_)
SilenceRemove(x) ==
    IF Len(x) < StartDuration THEN <<>>
    ELSE IF \A i \in 1..StartDuration : x[i] = "audible" THEN x
         ELSE SilenceRemove(Tail(x))

Areverse(x) == [i \in 1..Len(x) |-> x[Len(x) + 1 - i]]

Filters == <<"silenceremove", "areverse", "silenceremove", "areverse">>

RunFilter(name, x) ==
    IF name = "silenceremove" THEN SilenceRemove(x) ELSE Areverse(x)

\* The next filter of the chain takes the output of the one before.
ApplyFilter ==
    /\ clip.stage < Len(Filters)
    /\ clip' = [clip EXCEPT !.stage = @ + 1,
                            !.samples = RunFilter(Filters[clip.stage + 1], @)]
    /\ UNCHANGED <<variant, deck, req, cmd, reply, now, storeVars, jobVars, masterVars>>

\* The chain's output is given to the chain again.
TrimAgain ==
    /\ clip.stage = Len(Filters)
    /\ clip.pass = 1
    /\ clip' = [clip EXCEPT !.pass = 2, !.stage = 0, !.first = clip.samples]
    /\ UNCHANGED <<variant, deck, req, cmd, reply, now, storeVars, jobVars, masterVars>>

TrimInit ==
    /\ variant = "part_000"
    /\ \E x \in SampleSeqs :
         clip = [input |-> x, samples |-> x, stage |-> 0, pass |-> 1, first |-> <<>>]
    /\ reply = <<>>
    /\ cmd = <<>>
    /\ deck = <<>>
    /\ req = <<>>
    /\ now = 0
    /\ store = <<>>
    /\ up = <<>>
    /\ playlist = <<>>
    /\ resets = 0
    /\ resetStatus = 0
    /\ jobs = <<>>
    /\ tmpfiles = {}
    /\ master = <<>>
    /\ mtemps = {}
    /\ mup = <<>>
    /\ served = <<>>

TrimNext == ApplyFilter \/ TrimAgain

SpecTrim == TrimInit /\ [][TrimNext]_vars

Trimmed(p) == p.stage = Len(Filters)

Audible(x) == {i \in 1..Len(x) : x[i] = "audible"}

\* x from its first audible sample to its last one, empty without one.
BetweenAudible(x) ==
    IF Audible(x) = {} THEN <<>>
    ELSE LET lo == CHOOSE i \in Audible(x) : \A k \in Audible(x) : i <= k
             hi == CHOOSE i \in Audible(x) : \A k \in Audible(x) : i >= k
         IN  [i \in 1..(hi - lo + 1) |-> x[lo + i - 1]]

\* C27: the chain returns the input without its leading and its trailing
\* silent run, the samples between the first and the last audible one in
\* their order, and nothing for an input that is silent throughout.
C27_TrimKeepsBetweenAudible ==
    (Trimmed(clip) /\ clip.pass = 1) => clip.samples = BetweenAudible(clip.input)

\* C28: the chain applied to its own output returns that output.
C28_TrimIdempotent ==
    (Trimmed(clip) /\ clip.pass = 2) => clip.samples = clip.first

C28_Witness ==
    /\ Trimmed(clip)
    /\ clip.pass = 2
    /\ clip.first # <<>>
    /\ clip.first # clip.input
    /\ clip.samples = clip.first

\* ---------------------------------------------------------------------------
\* One upload from its samples to the published clip: the filters that
\* trimAndSave (normalizeAudio) chooses for the upload, then the size check
\* and the response.
\* ---------------------------------------------------------------------------

\* part_001 gives an upload whose original name ends in .mp4 no filter, and
\* normalizeAudio has none for any upload: the engine only transcodes.
FilterChain(v, orig) ==
    CASE v = "part_002_playlist" -> <<>>
      [] v = "part_001" /\ orig = ".mp4" -> <<>>
      [] OTHER -> Filters

\* path.extname(req.file.originalname) is whatever the caller declares.
DeclaredExts == OrigExts \cup {".m4a"}

IngestFilter ==
    /\ clip.pc = "trimming"
    /\ clip.stage < Len(FilterChain(variant, clip.orig))
    /\ clip' = [clip EXCEPT
                   !.stage = @ + 1,
                   !.samples = RunFilter(FilterChain(variant, clip.orig)[clip.stage + 1], @)]
    /\ UNCHANGED <<variant, deck, req, cmd, reply, now, storeVars, jobVars, masterVars>>

\* The sizes the output file can have: without a sample it is empty or a
\* bare container header.
OutputSizes(samples) ==
    IF samples = <<>> THEN {0, SmallFileLimit} ELSE Sizes \ {0}

\* The engine ends with an output of `size` bytes: the size check rejects it,
\* or the clip is published at finalPath and the upload answers 200.
IngestEnd(size) ==
    /\ clip.pc = "trimming"
    /\ clip.stage = Len(FilterChain(variant, clip.orig))
    /\ size \in OutputSizes(clip.samples)
    /\ clip' = [clip EXCEPT !.size = size,
                            !.pc = IF RejectsSize(variant, size)
                                      THEN "rejected" ELSE "published"]
    /\ UNCHANGED <<variant, deck, req, cmd, reply, now, storeVars, jobVars, masterVars>>

IngestInit ==
    /\ variant \in StoreVariants
    /\ \E x \in SampleSeqs, orig \in DeclaredExts :
         clip = [pc |-> "trimming", orig |-> orig, input |-> x, samples |-> x,
                 stage |-> 0, size |-> 0]
    /\ reply = <<>>
    /\ cmd = <<>>
    /\ deck = <<>>
    /\ req = <<>>
    /\ now = 0
    /\ store = <<>>
    /\ up = <<>>
    /\ playlist = <<>>
    /\ resets = 0
    /\ resetStatus = 0
    /\ jobs = <<>>
    /\ tmpfiles = {}
    /\ master = <<>>
    /\ mtemps = {}
    /\ mup = <<>>
    /\ served = <<>>

IngestNext == IngestFilter \/ \E size \in Sizes : IngestEnd(size)

SpecIngest == IngestInit /\ [][IngestNext]_vars

\* C38: a clip whose upload returned success passes the playback filters
\* that later corruption has no part in: its stored extension is one the
\* listing recognises, and its size, accepted by the size check after the
\* trim, passes the minimum-size filter of the listing.
C38_PublishedClipIsEligible ==
    clip.pc = "published" =>
        /\ FinalExt(variant, clip.orig) \in PlaybackExts(variant)
        /\ PassesSizeFilter(variant, clip.size)

\* C35: a clip published by a successful upload has no silence left at its
\* start or at its end, whatever the original extension of the upload.
C35_PublishedClipIsTrimmed ==
    (clip.pc = "published" /\ clip.samples # <<>>) =>
        /\ clip.samples[1] = "audible"
        /\ clip.samples[Len(clip.samples)] = "audible"

\* ---------------------------------------------------------------------------
\* The shuffle loop of order=special on `others`, the clips behind the
\* anchor, one pass of the loop per step:
\*   for (let i = others.length - 1; i > 0; i--) {
\*     const j = Math.floor(Math.random() * (i + 1));
\*     [others[i], others[j]] = [others[j], others[i]]; }
\* Positions are counted from 1: pass i of the loop is pass n = i + 1.
\* ---------------------------------------------------------------------------

\* An index below the position being filled.
RandomIndex_belowOnly(k, n) == ((k * (n - 1)) \div RandomUnit) + 1

\* Math.floor(Math.random() * (i + 1)) for Math.random() = k / RandomUnit.
RandomIndex(k, n) == ((k * n) \div RandomUnit) + 1

\* The clips behind the anchor: distinct clips named by their stamps.
Decks ==
    {a \in UNION {[1..m -> 1..MaxStamp] : m \in 0..MaxClips} :
        \A i, k \in DOMAIN a : i # k => a[i] # a[k]}

ShufflePass(k) ==
    /\ deck.n >= 2
    /\ LET j == RandomIndex(k, deck.n)
       IN deck' = [deck EXCEPT !.a = Swap(@, deck.n, j),
                               !.n = @ - 1,
                               !.js = Append(@, j)]
    /\ UNCHANGED <<variant, req, cmd, reply, clip, now, storeVars, jobVars, masterVars>>

ShuffleInit ==
    /\ variant \in {"part_000", "part_003"}
    /\ \E a \in Decks : deck = [others |-> a, a |-> a, n |-> Len(a), js |-> <<>>]
    /\ clip = <<>>
    /\ reply = <<>>
    /\ cmd = <<>>
    /\ req = <<>>
    /\ now = 0
    /\ store = <<>>
    /\ up = <<>>
    /\ playlist = <<>>
    /\ resets = 0
    /\ resetStatus = 0
    /\ jobs = <<>>
    /\ tmpfiles = {}
    /\ master = <<>>
    /\ mtemps = {}
    /\ mup = <<>>
    /\ served = <<>>

ShuffleNext == \E k \in RandomSource : ShufflePass(k)

SpecShuffle == ShuffleInit /\ [][ShuffleNext]_vars

\* The choices of a whole run over m clips: pass n picks an index in 1..n.
ChoiceSeqs(m) ==
    {c \in [2..m -> 1..MaxClips] : \A n \in 2..m : c[n] <= n}

\* The loop with the indices c[n] instead of the random source.
RECURSIVE ShuffleBy(_, _, _)
ShuffleBy(a, n, c) ==
    IF n < 2 THEN a ELSE ShuffleBy(Swap(a, n, c[n]), n - 1, c)

Orderings(a) ==
    {p \in [1..Len(a) -> Range(a)] : \A i, k \in 1..Len(a) : i # k => p[i] # p[k]}

\* The indices picked so far, by pass.
Chosen(d) == [n \in (d.n + 1)..Len(d.others) |-> d.js[Len(d.others) - n + 1]]

\* C36: the shuffle of the clips behind the anchor is an unbiased
\* Fisher-Yates: the passes run from the last position down to the second,
\* pass n picks its index among all of 1..n, every permutation is the result
\* of some sequence of choices, and of exactly one.
C36_UnbiasedFisherYates ==
    LET m == Len(deck.others) IN
    /\ \A n \in 2..m : {RandomIndex(k, n) : k \in RandomSource} = 1..n
    /\ Len(deck.js) = m - (IF m = 0 THEN 0 ELSE deck.n)
    /\ deck.n <= 1 =>
          /\ m >= 2 => Chosen(deck) \in ChoiceSeqs(m)
          /\ m >= 2 => deck.a = ShuffleBy(deck.others, m, Chosen(deck))
          /\ deck.a \in Orderings(deck.others)
    /\ {ShuffleBy(deck.others, m, c) : c \in ChoiceSeqs(m)} = Orderings(deck.others)
    /\ Cardinality(ChoiceSeqs(m)) = Cardinality(Orderings(deck.others))

\* C36 witness: three clips have been shuffled into an order that is not the
\* one they came in.
C36_Witness ==
    /\ Len(deck.others) = 3
    /\ deck.n = 1
    /\ deck.a # deck.others
    /\ deck.a[3] = deck.others[1]

\* ---------------------------------------------------------------------------
\* The listing of GET /api/master_drone when the directory changes under it:
\* readdirSync returns the names, then every name is given to statSync.  No
\* handler of the server runs between the two calls; a file can only go away
\* through something outside the process.
\* ---------------------------------------------------------------------------

\* Whether statSync is wrapped in its own try/catch.
StatCatches(v) == v \in {"part_001", "part_003", "part_004"}

\* fs.readdirSync(PERSISTENT_STORAGE_PATH).filter(extension)
ReadDir ==
    /\ variant \in JobVariants
    /\ req.pc = "idle"
    /\ \E dir \in DirOrders(store) :
         req' = [req EXCEPT !.pc = "listed",
                            !.files = SelectSeq(dir, LAMBDA p : p.ext \in PlaybackExts(variant))]
    /\ UNCHANGED <<variant, deck, cmd, reply, clip, now, storeVars, jobVars, masterVars>>

\* A listed file is removed before it is looked at.
Vanish(p) ==
    /\ req.pc = "listed"
    /\ Exists(store, p)
    /\ store' = RemoveFile(store, p)
    /\ UNCHANGED <<variant, deck, req, cmd, reply, clip, now, up, playlist, resets,
                   resetStatus, jobVars, masterVars>>

\* .map(stat).filter(size).sort(...): statSync of a name that is gone throws
\* ENOENT, into the try/catch around it or into the catch block of the route.
StatAll ==
    /\ req.pc = "listed"
    /\ req' = IF (\E i \in 1..Len(req.files) : ~Exists(store, req.files[i]))
                 /\ ~StatCatches(variant)
                 THEN [req EXCEPT !.pc = "responded", !.status = 500, !.body = "error"]
                 ELSE [req EXCEPT !.pc = "statted",
                                  !.playlist = Listing(variant, store, req.files)]
    /\ UNCHANGED <<variant, deck, cmd, reply, clip, now, storeVars, jobVars, masterVars>>

StatInit ==
    /\ variant \in JobVariants
    /\ now = 1
    /\ store \in Catalogs(variant)
    /\ req = IdleRequest
    /\ deck = <<>>
    /\ clip = <<>>
    /\ reply = <<>>
    /\ cmd = <<>>
    /\ up = <<>>
    /\ playlist = <<>>
    /\ resets = 0
    /\ resetStatus = 0
    /\ jobs = <<>>
    /\ tmpfiles = {}
    /\ master = <<>>
    /\ mtemps = {}
    /\ mup = <<>>
    /\ served = <<>>

StatNext ==
    \/ ReadDir
    \/ \E p \in DOMAIN store : Vanish(p)
    \/ StatAll

SpecStat == StatInit /\ [][StatNext]_vars

\* C37: when a clip has gone between the listing and its stat, the request
\* goes on with the clips that are left, the gone clip skipped, and is not
\* answered with a 5xx.
C37_VanishedClipIsSkipped ==
    (/\ req.pc \in {"statted", "responded"}
     /\ \E i \in 1..Len(req.files) : ~Exists(store, req.files[i]))
    => /\ req.status < 500
       /\ req.pc = "statted"
       /\ Range(req.playlist) = Range(req.files) \cap Candidates(variant, store)

\* ---------------------------------------------------------------------------
\* One GET /api/master_drone request to its end: the listing, the probes, the
\* code that builds the response, and the engine's exit.  Every probe calls
\* back and every engine exits.
\* ---------------------------------------------------------------------------

\* Whether the code after the validation runs inside the try block of the
\* route.  part_001 runs it in Promise.all(...).then(...) with no catch.
ContinuationInTry(v) == v # "part_001"

\* res.status(500).send('Could not generate the communal ahhh.')
CatchBlock(r) == [r EXCEPT !.pc = "responded", !.status = 500, !.body = "error"]

\* An exception is raised while the clips are put in order or the engine
\* command and its filter are built.
ContinuationThrows ==
    /\ variant \in JobVariants
    /\ IF HasProbe(variant)
          THEN /\ req.pc = "probing"
               /\ AllSettled(req.probes)
               /\ Branch(variant, Len(Validated(req.files, req.probes))) = "sequence"
          ELSE /\ req.pc = "idle"
               /\ \E files \in Listings(variant, store) :
                     Branch(variant, Len(files)) = "sequence"
    /\ req' = IF ContinuationInTry(variant)
                 THEN CatchBlock(req)
                 ELSE [req EXCEPT !.pc = "abandoned"]
    /\ UNCHANGED <<variant, deck, cmd, reply, clip, now, storeVars, jobVars, masterVars>>

\* The engine exits and the pipe ({ end: true }) ends the response.
EngineExits ==
    /\ req.pc = "responded"
    /\ req.engine
    /\ req' = [req EXCEPT !.pc = "ended"]
    /\ UNCHANGED <<variant, deck, cmd, reply, clip, now, storeVars, jobVars, masterVars>>

\* The stores the request is followed over: no clip, one, or two.
LiveStores(v) ==
    {s \in Catalogs(v) :
        DOMAIN s \subseteq {[t |-> x, ext |-> FinalExt(v, ".webm")] : x \in {1, MaxStamp}}}

LiveInit ==
    /\ variant \in JobVariants
    /\ now = 1
    /\ store \in LiveStores(variant)
    /\ req = IdleRequest
    /\ deck = <<>>
    /\ clip = <<>>
    /\ reply = <<>>
    /\ cmd = <<>>
    /\ up = <<>>
    /\ playlist = <<>>
    /\ resets = 0
    /\ resetStatus = 0
    /\ jobs = <<>>
    /\ tmpfiles = {}
    /\ master = <<>>
    /\ mtemps = {}
    /\ mup = <<>>
    /\ served = <<>>

LiveNext ==
    \/ ListAndRespond
    \/ ListAndProbe
    \/ \E i \in 1..MaxClips, ok \in BOOLEAN : ProbeReturns(i, ok)
    \/ \E order \in Orders, mode \in Modes : ThenRespond(order, mode)
    \/ ContinuationThrows
    \/ EngineExits

\* The event loop runs every callback that is due: a step that can be taken
\* is taken.
SpecLive == LiveInit /\ [][LiveNext]_vars /\ WF_vars(LiveNext)

\* A complete response, or a stream that has been ended.
Terminated(r) == r.pc = "ended" \/ (r.pc = "responded" /\ ~r.engine)

\* C39: every playback request ends with a complete response or with a
\* stream that is ended, also when an exception is raised after validation.
C39_RequestTerminates ==
    <>Terminated(req)

====
